---- MODULE Spec2Model ----
(***************************************************************************)
(* Model of backend/main.py: the FastAPI RAG backend (upload, ask, list,   *)
(* delete) together with the process-wide embedding cache and the Milvus   *)
(* collection it drives.                                                   *)
(*                                                                         *)
(* Scheduling: every endpoint is an `async def` run on the single event    *)
(* loop, and the only `await` in the file is `await file.read()` in        *)
(* upload_document.  A handler therefore runs without interleaving from    *)
(* one suspension point to the next: upload_document is two steps          *)
(* (UploadStart, UploadFinish), every other handler is one step.           *)
(*                                                                         *)
(* Strings whose length matters are kept as ropes: a sequence of segments  *)
(* <<source, from, to>>, each standing for characters from..to-1 of the    *)
(* named source text, so that the program's real sizes (1000, 200, 500)    *)
(* are used unchanged.                                                     *)
(***************************************************************************)
EXTENDS Integers, Sequences, FiniteSets, TLC

\* ------------------------------------------------------------- bounds
MaxUploads == 2          \* upload requests accepted during one run

\* ------------------------------------------------------ configuration
CHUNK_SIZE == 1000
CHUNK_OVERLAP == 200
COLLECTION_DIM == 384
FALLBACK_CHARS == 500
QUERY_LIMIT == 1000
DEFAULT_MODEL == "sentence-transformers/all-MiniLM-L6-v2"
OTHER_MODEL == "sentence-transformers/all-mpnet-base-v2"
Models == {DEFAULT_MODEL, OTHER_MODEL}

\* output dimension of a SentenceTransformer model
Dim(m) == IF m = DEFAULT_MODEL THEN 384 ELSE 768

\* ----------------------------------------------------- request inputs
FileNames == {"facts.txt", "empty.MD", "tool.exe"}

\* file.filename.split(".")
NameParts(name) ==
    CASE name = "facts.txt" -> <<"facts", "txt">>
      [] name = "empty.MD" -> <<"empty", "MD">>
      [] OTHER -> <<"tool", "exe">>

\* str.lower() on the extensions that occur
Lower(s) == IF s = "MD" THEN "md" ELSE s

\* number of characters the extractor reads from the uploaded file
TextLen(name) ==
    CASE name = "facts.txt" -> 1100
      [] name = "empty.MD" -> 0
      [] OTHER -> 40

\* the embedding_model parameter of the uploads (its default) and of the questions
UploadModels == {DEFAULT_MODEL}
Questions == {"q1"}
TopKs == {1, 2}

\* ------------------------------------------------------------- ropes
Min(a, b) == IF a < b THEN a ELSE b

SegLen(seg) == seg[3] - seg[2]

RECURSIVE RLen(_)
RLen(r) == IF r = <<>> THEN 0 ELSE SegLen(Head(r)) + RLen(Tail(r))

\* r[:n]
RECURSIVE Take(_, _)
Take(r, n) ==
    IF r = <<>> \/ n <= 0 THEN <<>>
    ELSE IF SegLen(Head(r)) = 0 THEN Take(Tail(r), n)
    ELSE IF SegLen(Head(r)) <= n
         THEN <<Head(r)>> \o Take(Tail(r), n - SegLen(Head(r)))
         ELSE << <<Head(r)[1], Head(r)[2], Head(r)[2] + n>> >>

\* the i-th character (1-based) of a rope, as <<source, offset>>
RECURSIVE CharAt(_, _)
CharAt(r, i) ==
    IF i <= SegLen(Head(r))
    THEN <<Head(r)[1], Head(r)[2] + i - 1>>
    ELSE CharAt(Tail(r), i - SegLen(Head(r)))

Lit(name, n) == << <<name, 0, n>> >>

\* sep.join(parts)
RECURSIVE Join(_, _)
Join(sep, parts) ==
    IF parts = <<>> THEN <<>>
    ELSE IF Len(parts) = 1 THEN parts[1]
    ELSE parts[1] \o sep \o Join(sep, Tail(parts))

\* --------------------------------------------------------- text splitter
\* RecursiveCharacterTextSplitter(chunk_size=1000, chunk_overlap=200) on a
\* text of n characters without separators: windows of CHUNK_SIZE characters
\* that restart CHUNK_OVERLAP characters before the end of the previous one.
RECURSIVE SplitFrom(_, _, _)
SplitFrom(text, start, n) ==
    IF start + CHUNK_SIZE >= n
    THEN << << <<text, start, n>> >> >>
    ELSE << << <<text, start, start + CHUNK_SIZE>> >> >>
         \o SplitFrom(text, start + CHUNK_SIZE - CHUNK_OVERLAP, n)

split_text(text, n) == IF n = 0 THEN <<>> ELSE SplitFrom(text, 0, n)

\* ------------------------------------------------------------ embeddings
\* model.encode(texts): one vector per text, in order
EncodeOne(m, content) == [model |-> m, dim |-> Dim(m), of |-> content]

Encode(m, texts) == [i \in 1..Len(texts) |-> EncodeOne(m, texts[i])]

\* cosine similarity of a query vector and a chunk vector, on an integer scale
Score(qvec, cvec) ==
    LET seg == cvec.of[1]
        pos == seg[2] \div (CHUNK_SIZE - CHUNK_OVERLAP)
    IN IF qvec.of[1][1] = "q1" THEN (pos + 1) % 3 ELSE (2 * pos + 2) % 3


\* -------------------------------------------------------------- uuid, str
\* str(uuid.uuid4()): the n-th identifier drawn is fresh
Uuid(n) == <<"u1", "u2", "u3", "u4", "u5", "u6">>[n]

\* str(i) for a chunk index
Str(i) == <<"0", "1", "2", "3", "4", "5">>[i + 1]

\* json.dumps of the metadata dict: keys and values in insertion order
json_dumps(name, i, date) ==
    <<"document_name", name, "chunk_index", Str(i), "upload_date", date>>

\* json.loads: the dict of the serialized keys and values
json_loads(s) ==
    [k \in {s[2 * j - 1] : j \in 1..(Len(s) \div 2)} |->
        s[2 * (CHOOSE j \in 1..(Len(s) \div 2) : s[2 * j - 1] = k)]]

\* --------------------------------------------------- Milvus filter language
FIELD == "document_id"
EQ == " == "
NE == " != "
OR == " or "
QUOTE == "\""

\* f'document_id == "{document_id}"'
delete_expr(document_id) == <<FIELD, EQ, QUOTE>> \o document_id \o <<QUOTE>>

\* the store's parse of a filter: comparisons of the document_id field with a
\* quoted string literal, joined by "or"; <<"error">> when it is not one
RECURSIVE ParseFilter(_)
ParseFilter(toks) ==
    IF Len(toks) < 4 \/ toks[1] # FIELD \/ toks[2] \notin {EQ, NE} \/ toks[3] # QUOTE
    THEN <<"error">>
    ELSE LET closing == {j \in 4..Len(toks) : toks[j] = QUOTE}
         IN IF closing = {} THEN <<"error">>
            ELSE LET j == CHOOSE x \in closing : \A y \in closing : x <= y
                     term == [op |-> toks[2], lit |-> SubSeq(toks, 4, j - 1)]
                     rest == SubSeq(toks, j + 1, Len(toks))
                 IN IF rest = <<>> THEN <<"ok", <<term>> >>
                    ELSE IF rest[1] # OR THEN <<"error">>
                    ELSE LET more == ParseFilter(Tail(rest))
                         IN IF more[1] = "error" THEN <<"error">>
                            ELSE <<"ok", <<term>> \o more[2]>>

\* whether a stored row satisfies a parsed filter
Matches(terms, row) ==
    \E t \in 1..Len(terms) :
        IF terms[t].op = EQ THEN row.document_id = terms[t].lit
        ELSE row.document_id # terms[t].lit

\* ------------------------------------------------------------------ state
VARIABLES
    embedding_models,   \* the module-level cache: model name -> instance (0: absent)
    constructed,        \* model name -> number of SentenceTransformer(name) built
    returned,           \* model name -> instances get_embedding_model has returned
    milvus,             \* the Milvus server: collection, index, rows
    uuids,              \* number of uuid4() values drawn
    started,            \* number of upload requests accepted
    pending,            \* upload requests suspended in `await file.read()`
    ingestLog,          \* per drawn document_id: what upload_document did with it
    resp,               \* the response the last finished request returned
    last                \* what the last finished request did internally

vars == <<embedding_models, constructed, returned, milvus, uuids, started,
          pending, ingestLog, resp, last>>

NoBody == [none |-> TRUE]

NoLast == [filename |-> "", model |-> "", question |-> "", top_k |-> 0,
           target |-> <<>>, early |-> FALSE, extracted |-> FALSE,
           instance |-> 0, loaded |-> FALSE, connected |-> FALSE, seen |-> "none",
           search_issued |-> FALSE, searched |-> FALSE, llm_failed |-> FALSE,
           chunks |-> <<>>, context |-> <<>>, rows_before |-> <<>>]

Init ==
    /\ embedding_models = [m \in Models |-> 0]
    /\ constructed = [m \in Models |-> 0]
    /\ returned = [m \in Models |-> {}]
    /\ milvus = [has_collection |-> FALSE, has_index |-> FALSE, loaded |-> FALSE,
                 rows |-> <<>>, creations |-> 0, index_builds |-> 0]
    /\ uuids = 0
    /\ started = 0
    /\ pending = <<>>
    /\ ingestLog = <<>>
    /\ resp = [op |-> "none", status |-> 0, detail |-> <<>>, body |-> NoBody]
    /\ last = NoLast

\* ------------------------------------------------------- get_embedding_model
\* get_embedding_model without the `if model_name not in embedding_models` test
get_embedding_model_reload(cache, built, model_name, fails) ==
    IF fails
    THEN [ok |-> FALSE, instance |-> 0, cache |-> cache, built |-> built,
          loaded |-> FALSE]
    ELSE [ok |-> TRUE, instance |-> built[model_name] + 1, loaded |-> TRUE,
          cache |-> [cache EXCEPT ![model_name] = built[model_name] + 1],
          built |-> [built EXCEPT ![model_name] = @ + 1]]

\* returns the instance and the cache after the call; `fails` is whether
\* SentenceTransformer(model_name) raises when it is called
get_embedding_model(cache, built, model_name, fails) ==
    IF cache[model_name] # 0
    THEN [ok |-> TRUE, instance |-> cache[model_name], cache |-> cache, built |-> built,
          loaded |-> FALSE]
    ELSE IF fails
    THEN [ok |-> FALSE, instance |-> 0, cache |-> cache, built |-> built,
          loaded |-> FALSE]
    ELSE [ok |-> TRUE, instance |-> built[model_name] + 1, loaded |-> TRUE,
          cache |-> [cache EXCEPT ![model_name] = built[model_name] + 1],
          built |-> [built EXCEPT ![model_name] = @ + 1]]

\* ------------------------------------------------------------ connect_milvus
\* connect_milvus without the `if not utility.has_collection(...)` test
connect_milvus_recreate(mv, fail) ==
    IF fail = "connect" THEN [ok |-> FALSE, mv |-> mv, seen |-> "none"]
    ELSE LET c == [mv EXCEPT !.has_collection = TRUE, !.creations = @ + 1]
         IN IF ~c.has_index /\ fail = "index"
            THEN [ok |-> FALSE, mv |-> c, seen |-> "created"]
            ELSE LET x == IF c.has_index THEN c
                          ELSE [c EXCEPT !.has_index = TRUE, !.index_builds = @ + 1]
                 IN [ok |-> TRUE, mv |-> [x EXCEPT !.loaded = TRUE], seen |-> "created"]

\* `fail` names the store call that raises, if it is reached
connect_milvus(mv, fail) ==
    IF fail = "connect" THEN [ok |-> FALSE, mv |-> mv, seen |-> "none"]
    ELSE LET seen == IF mv.has_collection THEN "exists" ELSE "created"
             c == IF mv.has_collection THEN mv
                  ELSE [mv EXCEPT !.has_collection = TRUE, !.creations = @ + 1]
         IN IF ~c.has_index /\ fail = "index"
            THEN [ok |-> FALSE, mv |-> c, seen |-> seen]
            ELSE LET x == IF c.has_index THEN c
                          ELSE [c EXCEPT !.has_index = TRUE, !.index_builds = @ + 1]
                 IN [ok |-> TRUE, mv |-> [x EXCEPT !.loaded = TRUE], seen |-> seen]


\* ------------------------------------------------------------- store calls
\* collection.insert(entities): the batch is stored whole or the call raises.
\* The store raises when a vector's dimension is not the collection's, and
\* (`empty_ok` false) when the batch has no rows.
insert_accepted(entities, empty_ok) ==
    /\ \A i \in 1..Len(entities) : entities[i].embedding.dim = COLLECTION_DIM
    /\ (entities = <<>> => empty_ok)

\* collection.search(data=[qvec], limit=limit): the `limit` rows of highest
\* similarity, in non-increasing order of similarity, ties in insertion order
RECURSIVE TopHits(_, _, _, _)
TopHits(rows, qvec, idxs, limit) ==
    IF limit <= 0 \/ idxs = {} THEN <<>>
    ELSE LET best == CHOOSE i \in idxs : \A j \in idxs :
                        \/ Score(qvec, rows[j].embedding) < Score(qvec, rows[i].embedding)
                        \/ /\ Score(qvec, rows[j].embedding) = Score(qvec, rows[i].embedding)
                           /\ i <= j
         IN <<[entity |-> rows[best], score |-> Score(qvec, rows[best].embedding)]>>
            \o TopHits(rows, qvec, idxs \ {best}, limit - 1)

search(rows, qvec, limit) == TopHits(rows, qvec, DOMAIN rows, limit)

\* collection.query(expr="document_id != ''", limit=1000)
query_all(rows) ==
    SubSeq(SelectSeq(rows, LAMBDA r : r.document_id # <<>>), 1,
           Min(QUERY_LIMIT, Len(SelectSeq(rows, LAMBDA r : r.document_id # <<>>))))

\* ------------------------------------------------------------ responses
HTTPException(op, status, detail) ==
    [op |-> op, status |-> status, detail |-> detail, body |-> NoBody]

Ok(op, body) == [op |-> op, status |-> 200, detail |-> <<>>, body |-> body]

MILVUS_ERROR == "500: Error conectando a Milvus"

\* -------------------------------------------------------- upload_document
SUPPORTED == {"pdf", "txt", "docx", "md"}

\* file.filename.split(".")[-1].lower()
file_extension(name) == Lower(NameParts(name)[Len(NameParts(name))])

\* entities_of with the embeddings paired to the chunks in reverse
entities_of_misaligned(document_id, name, date, documents, embeddings) ==
    [i \in 1..Min(Len(documents), Len(embeddings)) |->
        [id |-> document_id \o <<"_chunk_", Str(i - 1)>>,
         document_id |-> document_id,
         content |-> documents[i],
         embedding |-> embeddings[Len(embeddings) + 1 - i],
         metadata |-> json_dumps(name, i - 1, date)]]

\* lines 204-224: one row per (chunk, embedding) pair of the zip, in order
entities_of(document_id, name, date, documents, embeddings) ==
    [i \in 1..Min(Len(documents), Len(embeddings)) |->
        [id |-> document_id \o <<"_chunk_", Str(i - 1)>>,
         document_id |-> document_id,
         content |-> documents[i],
         embedding |-> embeddings[i],
         metadata |-> json_dumps(name, i - 1, date)]]

UploadFails == {"none", "extract", "load_model", "connect", "index", "insert",
                "flush", "unlink"}

\* lines 168-177: validation, then the handler suspends in `await file.read()`
\* (`early` records that the request was accepted while no collection existed
\* and its model was not cached)
UploadStart(name, model) ==
    /\ started < MaxUploads
    /\ IF file_extension(name) \notin SUPPORTED
       THEN /\ resp' = HTTPException("upload", 400, <<"Tipo de archivo no soportado">>)
            /\ last' = NoLast
            /\ UNCHANGED <<pending, started>>
       ELSE /\ pending' = Append(pending, [filename |-> name, model |-> model,
                                           early |-> /\ ~milvus.has_collection
                                                     /\ embedding_models[model] = 0])
            /\ started' = started + 1
            /\ UNCHANGED <<resp, last>>
    /\ UNCHANGED <<embedding_models, constructed, returned, milvus, uuids, ingestLog>>

\* lines 180-250: the rest of the handler, run without suspension
UploadFinish(p, fail, empty_ok) ==
    LET req == pending[p]
        name == req.filename
        documents == split_text(name, TextLen(name))
        gm == get_embedding_model(embedding_models, constructed, req.model,
                                  fail = "load_model")
        embeddings == Encode(req.model, documents)
        cm == connect_milvus(milvus, fail)
        document_id == <<Uuid(uuids + 1)>>
        entities == entities_of(document_id, name, Str(uuids + 1), documents, embeddings)
        extracted == fail # "extract"
        have_model == extracted /\ gm.ok
        connected == have_model /\ cm.ok
        inserted == connected /\ fail # "insert" /\ insert_accepted(entities, empty_ok)
        flushed == inserted /\ fail # "flush"
        done == flushed /\ fail # "unlink"
        error == IF ~extracted THEN "400: Error extrayendo texto"
                 ELSE IF ~have_model THEN "model load failed"
                 ELSE IF ~connected THEN MILVUS_ERROR
                 ELSE IF ~inserted THEN "insert failed"
                 ELSE IF ~flushed THEN "flush failed"
                 ELSE "unlink failed"
    IN /\ (entities # <<>> => empty_ok)
       /\ (fail = "load_model" => embedding_models[req.model] = 0)
       /\ (fail = "index" => ~milvus.has_index)
       /\ pending' = SubSeq(pending, 1, p - 1) \o SubSeq(pending, p + 1, Len(pending))
       /\ embedding_models' = IF extracted THEN gm.cache ELSE embedding_models
       /\ constructed' = IF extracted THEN gm.built ELSE constructed
       /\ returned' = IF have_model
                      THEN [returned EXCEPT ![req.model] = @ \cup {gm.instance}]
                      ELSE returned
       /\ milvus' = IF ~have_model THEN milvus
                    ELSE IF inserted THEN [cm.mv EXCEPT !.rows = @ \o entities]
                    ELSE cm.mv
       /\ uuids' = IF connected THEN uuids + 1 ELSE uuids
       /\ ingestLog' = IF connected
                       THEN Append(ingestLog,
                                   [filename |-> name, model |-> req.model,
                                    documents |-> documents,
                                    status |-> IF done THEN 200 ELSE 500])
                       ELSE ingestLog
       /\ resp' = IF done
                  THEN Ok("upload", [document_id |-> document_id, filename |-> name,
                                     chunks_count |-> Len(documents)])
                  ELSE HTTPException("upload", 500, <<"Error procesando documento", error>>)
       /\ last' = [NoLast EXCEPT !.filename = name, !.model = req.model,
                                 !.early = req.early,
                                 !.extracted = extracted,
                                 !.instance = IF have_model THEN gm.instance ELSE 0,
                                 !.loaded = have_model /\ gm.loaded,
                                 !.connected = connected,
                                 !.seen = IF have_model THEN cm.seen ELSE "none"]
       /\ UNCHANGED started


\* ------------------------------------------------------------ ask_question
SEP == Lit("\n\n", 2)
FALLBACK_PREFIX == Lit("Error conectando al LLM. Contexto encontrado:\n\n", 47)
ELLIPSIS == Lit("...", 3)
QuestionLen == 12
AnswerLen == 80

\* relevant_chunks built by prepending each hit
relevant_chunks_reversed(hits) ==
    [i \in 1..Len(hits) |-> hits[Len(hits) + 1 - i].entity.content]

\* lines 283-284: the content of every hit, in the order the store returned them
relevant_chunks_of(hits) == [i \in 1..Len(hits) |-> hits[i].entity.content]

\* lines 281-287: the distinct document names of the hits' metadata
sources_of(hits) ==
    {json_loads(hits[i].entity.metadata)["document_name"] :
        i \in {j \in 1..Len(hits) :
                 "document_name" \in DOMAIN json_loads(hits[j].entity.metadata)}}

\* the fallback without the [:500] slice
fallback_answer_whole(context) == FALLBACK_PREFIX \o context \o ELLIPSIS

\* line 324: f"Error conectando al LLM. Contexto encontrado:\n\n{context[:500]}..."
fallback_answer(context) == FALLBACK_PREFIX \o Take(context, FALLBACK_CHARS) \o ELLIPSIS

AskFails == {"none", "load_model", "connect", "index", "search", "llm"}

AskQuestion(question, model, top_k, fail) ==
    LET gm == get_embedding_model(embedding_models, constructed, model,
                                  fail = "load_model")
        question_embedding == EncodeOne(model, Lit(question, QuestionLen))
        cm == connect_milvus(milvus, fail)
        have_model == gm.ok
        connected == have_model /\ cm.ok
        searched == connected /\ fail # "search"
                    /\ question_embedding.dim = COLLECTION_DIM
        results == IF searched THEN search(cm.mv.rows, question_embedding, top_k)
                   ELSE <<>>
        found == searched /\ results # <<>>
        relevant_chunks == relevant_chunks_of(results)
        sources == sources_of(results)
        context == Join(SEP, relevant_chunks)
        answer == IF fail = "llm" THEN fallback_answer(context)
                  ELSE Lit("completion", AnswerLen)
        error == IF ~have_model THEN "model load failed"
                 ELSE IF ~connected THEN MILVUS_ERROR
                 ELSE IF ~searched THEN "search failed"
                 ELSE "404: No se encontraron documentos relevantes"
    IN /\ (fail = "load_model" => embedding_models[model] = 0)
       /\ (fail = "index" => ~milvus.has_index)
       /\ embedding_models' = gm.cache
       /\ constructed' = gm.built
       /\ returned' = IF have_model
                      THEN [returned EXCEPT ![model] = @ \cup {gm.instance}]
                      ELSE returned
       /\ milvus' = IF have_model THEN cm.mv ELSE milvus
       /\ resp' = IF found
                  THEN Ok("ask", [answer |-> answer, sources |-> sources,
                                  context_chunks |-> Len(relevant_chunks),
                                  question |-> question])
                  ELSE HTTPException("ask", 500, <<"Error procesando pregunta", error>>)
       /\ last' = [NoLast EXCEPT !.model = model, !.question = question,
                                 !.top_k = top_k,
                                 !.instance = IF have_model THEN gm.instance ELSE 0,
                                 !.loaded = have_model /\ gm.loaded,
                                 !.connected = connected,
                                 !.seen = IF have_model THEN cm.seen ELSE "none",
                                 !.search_issued = connected,
                                 !.searched = searched,
                                 !.llm_failed = found /\ fail = "llm",
                                 !.chunks = relevant_chunks,
                                 !.context = context]
       /\ UNCHANGED <<uuids, started, pending, ingestLog>>

\* ---------------------------------------------------------- list_documents
\* lines 352-365: one entry per document_id, in order of first appearance,
\* named from the first row's metadata, with the number of its rows
RECURSIVE group_documents(_, _)
group_documents(results, documents) ==
    IF results = <<>> THEN documents
    ELSE LET result == Head(results)
             at == {i \in 1..Len(documents) : documents[i].id = result.document_id}
             metadata == json_loads(result.metadata)
         IN IF at = {}
            THEN group_documents(Tail(results),
                    Append(documents,
                           [id |-> result.document_id,
                            name |-> IF "document_name" \in DOMAIN metadata
                                     THEN metadata["document_name"]
                                     ELSE "Documento desconocido",
                            upload_date |-> IF "upload_date" \in DOMAIN metadata
                                            THEN metadata["upload_date"] ELSE "",
                            chunks |-> 1]))
            ELSE group_documents(Tail(results),
                    [documents EXCEPT ![CHOOSE i \in at : TRUE].chunks = @ + 1])

StoreFails == {"none", "connect", "index", "call"}

ListDocuments(fail) ==
    LET cm == connect_milvus(milvus, fail)
        queried == cm.ok /\ fail # "call"
    IN /\ (fail = "index" => ~milvus.has_index)
       /\ milvus' = cm.mv
       /\ resp' = IF queried
                  THEN Ok("list", [documents |->
                                      group_documents(query_all(cm.mv.rows), <<>>)])
                  ELSE HTTPException("list", 500,
                          <<"Error listando documentos",
                            IF cm.ok THEN "query failed" ELSE MILVUS_ERROR>>)
       /\ last' = [NoLast EXCEPT !.connected = cm.ok, !.seen = cm.seen]
       /\ UNCHANGED <<embedding_models, constructed, returned, uuids, started,
                      pending, ingestLog>>

\* --------------------------------------------------------- delete_document
\* path parameters the handler is called with: the identifiers upload returns,
\* and two strings that hold a double quote
INJECTION == <<"u1", QUOTE, OR, FIELD, NE, QUOTE>>
DeleteTargets == {<<Uuid(n)>> : n \in 1..MaxUploads} \cup {INJECTION, <<QUOTE>>}

\* collection.delete(expr): the rows left after the rows matching expr are removed
delete_rows(rows, terms) == SelectSeq(rows, LAMBDA r : ~Matches(terms, r))

DeleteDocument(document_id, fail) ==
    LET cm == connect_milvus(milvus, fail)
        parsed == ParseFilter(delete_expr(document_id))
        deleted == cm.ok /\ fail # "call" /\ parsed[1] = "ok"
    IN /\ (fail = "index" => ~milvus.has_index)
       /\ milvus' = IF deleted
                    THEN [cm.mv EXCEPT !.rows = delete_rows(@, parsed[2])]
                    ELSE cm.mv
       /\ resp' = IF deleted
                  THEN Ok("delete", [document_id |-> document_id])
                  ELSE HTTPException("delete", 500,
                          <<"Error eliminando documento",
                            IF cm.ok THEN "delete failed" ELSE MILVUS_ERROR>>)
       /\ last' = [NoLast EXCEPT !.connected = cm.ok, !.seen = cm.seen,
                                 !.target = document_id,
                                 !.rows_before = milvus.rows]
       /\ UNCHANGED <<embedding_models, constructed, returned, uuids, started,
                      pending, ingestLog>>

\* ------------------------------------------------------------ specification
Next ==
    \/ \E name \in FileNames, model \in UploadModels : UploadStart(name, model)
    \/ \E p \in DOMAIN pending, fail \in UploadFails, empty_ok \in BOOLEAN :
          UploadFinish(p, fail, empty_ok)
    \/ \E question \in Questions, model \in Models, top_k \in TopKs, fail \in AskFails :
          AskQuestion(question, model, top_k, fail)
    \/ \E fail \in StoreFails : ListDocuments(fail)
    \/ \E document_id \in DeleteTargets, fail \in StoreFails :
          DeleteDocument(document_id, fail)

Spec == Init /\ [][Next]_vars


\* only the ingestion handler runs
NextIngest ==
    \/ \E name \in FileNames, model \in UploadModels : UploadStart(name, model)
    \/ \E p \in DOMAIN pending, fail \in UploadFails, empty_ok \in BOOLEAN :
          UploadFinish(p, fail, empty_ok)

SpecIngest == Init /\ [][NextIngest]_vars

\* ------------------------------------------------------------------ claims
\* the stored rows whose document_id is the d-th identifier drawn
RowsOf(d) == SelectSeq(milvus.rows, LAMBDA r : r.document_id = <<Uuid(d)>>)

\* the ordinal of the identifier a row carries
DocOf(row) == CHOOSE d \in 1..uuids : row.document_id = <<Uuid(d)>>

\* C1: every call of get_embedding_model(M) returns the same instance, and
\* SentenceTransformer(M) is built at most once: the cache entry of M, once
\* written, is the first instance built and is never replaced, also when
\* requests that started before M was cached run the call one after another.
C1_SingleInstance ==
    \A m \in Models :
        /\ constructed[m] <= 1
        /\ Cardinality(returned[m]) <= 1
        /\ (embedding_models[m] # 0 <=> constructed[m] = 1)
        /\ (embedding_models[m] # 0 => embedding_models[m] = 1)
        /\ returned[m] \subseteq {1}

\* a request that started while its model was not cached got, when it ran, the
\* instance another request had built meanwhile
C1_Witness ==
    /\ resp.op = "upload"
    /\ last.early
    /\ last.instance = 1
    /\ ~last.loaded
    /\ constructed[last.model] = 1

\* C2: every stored chunk belongs to an ingestion whose caller received
\* success: an upload that reported an error left none of its chunks stored.
C2_AllOrNothing ==
    \A i \in 1..Len(milvus.rows) :
        \E d \in 1..Len(ingestLog) :
            /\ milvus.rows[i].document_id = <<Uuid(d)>>
            /\ ingestLog[d].status = 200

\* C3: a successful delete_document(d) removes exactly the rows whose
\* document_id is d and leaves every other row as it was.
C3_DeleteExact ==
    (resp.op = "delete" /\ resp.status = 200) =>
        milvus.rows = SelectSeq(last.rows_before,
                                LAMBDA r : r.document_id # last.target)

\* C4 as stated: when the completion call fails after a match was found, the
\* answer is the fixed prefix followed by the first 500 characters of the
\* context, and nothing else.
C4_PrefixThenContext ==
    last.llm_failed =>
        /\ resp.status = 200
        /\ RLen(resp.body.answer)
             = RLen(FALLBACK_PREFIX) + Min(FALLBACK_CHARS, RLen(last.context))

\* the document names the log gives for the rows whose content was retrieved
NamesOfChunks(chunks) ==
    {ingestLog[DocOf(milvus.rows[i])].filename :
        i \in {j \in 1..Len(milvus.rows) :
                 \E c \in 1..Len(chunks) : chunks[c] = milvus.rows[j].content}}

\* C4 (amended): when the completion call fails after a match was found, ask
\* answers 200; the answer is the fixed prefix, then the first 500 characters
\* of the context (all of it when it is shorter), then the three characters
\* "..."; sources and context_chunks are those of the retrieved chunks.
C4_FallbackAnswer ==
    last.llm_failed =>
        LET answer == resp.body.answer
            p == RLen(FALLBACK_PREFIX)
            n == Min(FALLBACK_CHARS, RLen(last.context))
        IN /\ resp.status = 200
           /\ RLen(answer) = p + n + RLen(ELLIPSIS)
           /\ \A i \in 1..p : CharAt(answer, i) = CharAt(FALLBACK_PREFIX, i)
           /\ \A i \in 1..n : CharAt(answer, p + i) = CharAt(last.context, i)
           /\ \A i \in 1..RLen(ELLIPSIS) :
                 CharAt(answer, p + n + i) = CharAt(ELLIPSIS, i)
           /\ resp.body.context_chunks = Len(last.chunks)
           /\ Len(last.chunks) >= 1
           /\ resp.body.sources = NamesOfChunks(last.chunks)

\* the completion call failed on a context longer than 500 characters
C4_Witness ==
    /\ last.llm_failed
    /\ RLen(last.context) > FALLBACK_CHARS
    /\ Len(last.chunks) = 2

\* C5: a search that returns no match is answered with a status that is not a
\* server fault, so that it differs from the answer to an unreachable store.
C5_NoMatchIsNotServerFault ==
    (resp.op = "ask" /\ last.searched /\ last.chunks = <<>>) =>
        resp.status \notin 500..599

\* C6: with an embedding model whose dimension is not the collection's, ask
\* issues no search to the store.
C6_NoSearchOnMismatch ==
    (resp.op = "ask" /\ Dim(last.model) # COLLECTION_DIM) => ~last.search_issued

\* C7: an upload whose extracted text is empty is rejected as a client error:
\* it is answered neither with success nor with a server fault.
C7_EmptyRejected ==
    (resp.op = "upload" /\ last.extracted /\ TextLen(last.filename) = 0) =>
        resp.status = 400

\* C8: the collection and its index are each created at most once however many
\* requests call connect_milvus, a call that returns leaves the collection
\* created, indexed and loaded, and a call that finds the collection reports
\* no error for that.
C8_OneCollection ==
    /\ milvus.creations <= 1
    /\ milvus.index_builds <= 1
    /\ (milvus.has_collection <=> milvus.creations = 1)
    /\ (milvus.has_index <=> milvus.index_builds = 1)
    /\ (last.seen = "exists" => milvus.creations = 1)
    /\ (last.connected =>
          milvus.has_collection /\ milvus.has_index /\ milvus.loaded)

\* a request that started while no collection existed found, when it ran, the
\* collection another request had created, and went on
C8_Witness ==
    /\ resp.op = "upload"
    /\ last.early
    /\ last.seen = "exists"
    /\ last.connected
    /\ resp.status = 200
    /\ milvus.creations = 1

\* the one document all stored rows belong to, 0 when there is none
OnlyDocument ==
    IF milvus.rows # <<>>
       /\ \A i \in 1..Len(milvus.rows) :
             milvus.rows[i].document_id = milvus.rows[1].document_id
    THEN DocOf(milvus.rows[1])
    ELSE 0

\* C9: when the collection holds the N >= 1 chunks of one document and nothing
\* else, an ask whose search ran with top_k >= N answers 200 with those N
\* chunks as context, each once, in non-increasing order of similarity to the
\* question, and with sources equal to the set of that document's name.
C9_RetrieveOwnChunks ==
    LET d == OnlyDocument
        docs == ingestLog[d].documents
        q == EncodeOne(last.model, Lit(last.question, QuestionLen))
    IN (/\ resp.op = "ask"
        /\ last.searched
        /\ d # 0
        /\ Len(RowsOf(d)) = Len(docs)
        /\ last.top_k >= Len(docs)) =>
           /\ resp.status = 200
           /\ resp.body.context_chunks = Len(docs)
           /\ Len(last.chunks) = Len(docs)
           /\ {last.chunks[i] : i \in 1..Len(last.chunks)}
                = {docs[i] : i \in 1..Len(docs)}
           /\ \A i \in 1..(Len(last.chunks) - 1) :
                 Score(q, EncodeOne(ingestLog[d].model, last.chunks[i]))
                   >= Score(q, EncodeOne(ingestLog[d].model, last.chunks[i + 1]))
           /\ resp.body.sources = {ingestLog[d].filename}

\* an ask with top_k = 2 on a collection that holds the two chunks of one
\* upload of facts.txt, whose second chunk is the more similar one
C9_Witness ==
    /\ resp.op = "ask"
    /\ resp.status = 200
    /\ OnlyDocument # 0
    /\ Len(milvus.rows) = 2
    /\ last.top_k = 2
    /\ Len(last.chunks) = 2
    /\ last.chunks[1] = milvus.rows[2].content

\* C10: no two stored rows share an id; every row carries the identifier of
\* one ingestion and that ingestion's file name; and the rows of an ingestion
\* are none, or one per chunk the splitter produced, with row i holding chunk
\* index i, the i-th chunk and the embedding of that chunk; an upload that
\* answered success has all its rows stored.
C10_ChunksInOrder ==
    /\ \A i, j \in 1..Len(milvus.rows) :
          milvus.rows[i].id = milvus.rows[j].id => i = j
    /\ \A i \in 1..Len(milvus.rows) :
          \E d \in 1..Len(ingestLog) :
             /\ milvus.rows[i].document_id = <<Uuid(d)>>
             /\ json_loads(milvus.rows[i].metadata)["document_name"]
                  = ingestLog[d].filename
    /\ \A d \in 1..Len(ingestLog) :
          LET stored == RowsOf(d)
              docs == ingestLog[d].documents
          IN /\ (ingestLog[d].status = 200 => Len(stored) = Len(docs))
             /\ (stored # <<>> =>
                   /\ Len(stored) = Len(docs)
                   /\ \A i \in 1..Len(stored) :
                         /\ stored[i].id = <<Uuid(d), "_chunk_", Str(i - 1)>>
                         /\ json_loads(stored[i].metadata)["chunk_index"] = Str(i - 1)
                         /\ stored[i].content = docs[i]
                         /\ stored[i].embedding
                              = EncodeOne(ingestLog[d].model, docs[i]))

\* two uploads of the two-chunk file, both stored
C10_Witness ==
    /\ Len(ingestLog) = 2
    /\ Len(RowsOf(1)) = 2
    /\ Len(RowsOf(2)) = 2
    /\ Len(milvus.rows) = 4

====
